---- MODULE Spec2Model ----
(***************************************************************************)
(* FX Summary API (src/main.py): retrieval of the EUR->USD rate series     *)
(* with bounded retry and exponential backoff, fallback to a local         *)
(* snapshot, and the percentage-change summary.                            *)
(*                                                                         *)
(* Numbers.  A rate is a decimal with two places, written as an integer    *)
(* count of hundredths (110 is 1.10, the double nearest to 1.10 in the     *)
(* code).  Every value that the code passes through round(x, 4) is an      *)
(* integer count of ten-thousandths (100000 is 10.0000).  The code rounds  *)
(* a double, not the exact quotient: where the exact quotient lies halfway *)
(* between two results, the rounding errors of the double arithmetic       *)
(* decide, so that arithmetic is carried out bit for bit (section "binary  *)
(* floating point").                                                       *)
(*                                                                         *)
(* Optional values.  Python's None is the empty tuple and a present value  *)
(* v is the one-element tuple <<v>>.                                       *)
(*                                                                         *)
(* Dictionaries are functions whose domain is the set of keys present.     *)
(* Date keys are strings, modelled as tuples of digit codes, compared      *)
(* character by character as Python compares str.                          *)
(***************************************************************************)
EXTENDS Integers, Sequences, FiniteSets, TLC

\* ------------------------------------------------------------- bounds --
MaxSeriesLen == 3      \* largest number of dates in a summarised series
MaxDay == 2            \* start and end dates range over 1..MaxDay
NumReqs == 2           \* requests in flight in the concurrent specification

\* ------------------------------------------------- program constants ----
MAX_RETRIES == 3

\* ------------------------------------------------------ option values --
None == <<>>
Some(v) == <<v>>
IsNone(o) == o = <<>>
The(o) == o[1]

\* dict.get(key, default)
Get(d, k, default) == IF k \in DOMAIN d THEN d[k] ELSE default

EmptyDict == <<>>

\* ---------------------------------------------------------- exceptions --
\* The value of a call: either it returns v or it raises an exception of the
\* named class, which the framework turns into a response with the given
\* status (an HTTPException carries its own, any other exception gives 500).
Return(v) == [ok |-> TRUE, status |-> 200, error |-> "", value |-> Some(v)]
Raise(code, exception) ==
    [ok |-> FALSE, status |-> code, error |-> exception, value |-> None]

\* ------------------------------------------------------------ strings ---
\* Python str comparison a < b: first differing character decides, a proper
\* prefix is smaller.
RECURSIVE StrLess(_, _)
StrLess(a, b) ==
    IF b = <<>> THEN FALSE
    ELSE IF a = <<>> THEN TRUE
    ELSE IF Head(a) # Head(b) THEN Head(a) < Head(b)
    ELSE StrLess(Tail(a), Tail(b))

\* sorted(keys): ascending list of the keys
RECURSIVE Sorted(_)
Sorted(S) ==
    IF S = {} THEN <<>>
    ELSE LET m == CHOOSE x \in S : \A y \in S \ {x} : StrLess(x, y)
         IN  <<m>> \o Sorted(S \ {m})

\* ---------------------------------------------------------- arithmetic --
Abs(x) == IF x < 0 THEN -x ELSE x

\* a / b lies exactly halfway between two integers (b # 0)
IsTie(a, b) == 2 * (Abs(a) % Abs(b)) = Abs(b)

\* a / b rounded to the nearest integer, ties to even (b # 0)
RoundDiv(a, b) ==
    LET n == Abs(a)
        d == Abs(b)
        q == n \div d
        r == n % d
        up == IF 2 * r > d \/ (2 * r = d /\ q % 2 = 1) THEN q + 1 ELSE q
    IN  IF (a < 0) # (b < 0) THEN -up ELSE up

RECURSIVE SumSeq(_)
SumSeq(s) == IF s = <<>> THEN 0 ELSE Head(s) + SumSeq(Tail(s))

\* ------------------------------------------------- binary floating point --
\* Python floats are IEEE 754 doubles.  A 53-bit mantissa does not fit the
\* integers of the model checker, so a natural number is kept as a list of
\* limbs in base 2^15, least significant first, with no leading zero limb.
\* The operations avoid recursion over the limbs where they can: a carry is
\* computed from a comparison of the lower limbs.
Base == 32768
LimbBits == 15

Max(S) == CHOOSE x \in S : \A y \in S : y <= x
Min(a, b) == IF a < b THEN a ELSE b

Limbs(n) ==
    IF n = 0 THEN <<>>
    ELSE IF n < Base THEN <<n>>
    ELSE IF n < Base * Base THEN <<n % Base, n \div Base>>
    ELSE <<n % Base, (n \div Base) % Base, n \div (Base * Base)>>

\* the value of a number of at most 31 bits
LimbsToInt(a) ==
    (IF Len(a) >= 1 THEN a[1] ELSE 0)
      + (IF Len(a) >= 2 THEN a[2] * Base ELSE 0)
      + (IF Len(a) >= 3 THEN a[3] * Base * Base ELSE 0)

LTrim(a) == SubSeq(a, 1, Max({0} \cup {i \in 1..Len(a) : a[i] # 0}))

Limb(a, i) == IF i <= Len(a) THEN a[i] ELSE 0

\* the limbs 1..n of a make a smaller number than the limbs 1..n of b
LowLess(a, b, n) ==
    \E i \in 1..n : /\ Limb(a, i) < Limb(b, i)
                    /\ \A j \in (i + 1)..n : Limb(a, j) = Limb(b, j)

\* a < b
LLess(a, b) == LowLess(a, b, IF Len(a) < Len(b) THEN Len(b) ELSE Len(a))

\* the carry into limb i of a + b: the lower limbs of b exceed the
\* complement of the lower limbs of a
Carry(a, b, i) ==
    IF LowLess([j \in 1..(i - 1) |-> Base - 1 - Limb(a, j)], b, i - 1) THEN 1 ELSE 0

LAdd(a, b) ==
    LTrim([i \in 1..((IF Len(a) < Len(b) THEN Len(b) ELSE Len(a)) + 1) |->
             (Limb(a, i) + Limb(b, i) + Carry(a, b, i)) % Base])

\* the borrow from limb i of a - b
Borrow(a, b, i) == IF LowLess(a, b, i - 1) THEN 1 ELSE 0

\* a - b for a >= b
LSub(a, b) ==
    LTrim([i \in 1..Len(a) |-> ((a[i] - Limb(b, i)) - Borrow(a, b, i) + Base) % Base])

\* a * Base^n
LShiftLimbs(a, n) == IF a = <<>> THEN <<>> ELSE [i \in 1..n |-> 0] \o a

\* a * k for 0 <= k < Base: the low halves of the limb products plus their
\* high halves one limb up
LMulSmall(a, k) ==
    LAdd([i \in 1..Len(a) |-> (a[i] * k) % Base],
         [i \in 1..(Len(a) + 1) |-> IF i = 1 THEN 0 ELSE (a[i - 1] * k) \div Base])

RECURSIVE LMulFrom(_, _, _)
LMulFrom(a, b, j) ==
    IF j > Len(b) THEN <<>>
    ELSE LAdd(LMulSmall(a, b[j]), LShiftLimbs(LMulFrom(a, b, j + 1), 1))

LMul(a, b) == LMulFrom(a, b, 1)

\* a * 2^s
LShl(a, s) == LShiftLimbs(LMulSmall(a, 2 ^ (s % LimbBits)), s \div LimbBits)

\* floor(a / 2^s)
LShr(a, s) ==
    LTrim([i \in 1..(Len(a) - (s \div LimbBits)) |->
             (Limb(a, i + (s \div LimbBits)) \div (2 ^ (s % LimbBits)))
               + (Limb(a, i + (s \div LimbBits) + 1) % (2 ^ (s % LimbBits)))
                   * (2 ^ (LimbBits - (s % LimbBits)))])

\* a % 2^s
LowBits(a, s) ==
    LTrim([i \in 1..Min(Len(a), (s \div LimbBits) + 1) |->
             IF i <= s \div LimbBits THEN a[i] ELSE a[i] % (2 ^ (s % LimbBits))])

\* number of binary digits of a
BitLen(a) ==
    IF a = <<>> THEN 0
    ELSE (Len(a) - 1) * LimbBits
           + (CHOOSE k \in 1..LimbBits : 2 ^ (k - 1) <= a[Len(a)] /\ a[Len(a)] < 2 ^ k)

\* The next limb of the quotient, floor(r / d) for r < d * Base, when the
\* top limb of d is at least Base / 2: the quotient of the leading limbs is
\* the limb or exceeds it by at most 2.
QDigit(r, d) ==
    LET qhat == Min(Base - 1,
                    (Limb(r, Len(d) + 1) * Base + Limb(r, Len(d))) \div d[Len(d)])
    IN  Max({k \in {qhat - 2, qhat - 1, qhat} : k >= 0 /\ ~LLess(r, LMulSmall(d, k))})

\* one step of long division by d: the quotient limb qd goes below the
\* limbs q and is taken out of the remainder r
LTakeOut(d, q, r, qd) == [q |-> <<qd>> \o q, r |-> LSub(r, LMulSmall(d, qd))]

LDivStep(d, q, r) == LTakeOut(d, q, r, QDigit(r, d))

\* the limb is brought down to the remainder of the limbs above it; when
\* that leaves nothing to divide, the quotient limb is 0
LBringDown(limb, d, above) ==
    IF above.r = <<>> /\ limb = 0 THEN [q |-> <<0>> \o above.q, r |-> <<>>]
    ELSE LDivStep(d, above.q, <<limb>> \o above.r)

\* long division of n by d over the limbs i..Len(n) of n; the top
\* Len(d) - 1 limbs of n are less than d and start as the remainder
RECURSIVE LDivFrom(_, _, _)
LDivFrom(n, d, i) ==
    IF i > Len(n) - Len(d) + 1 THEN [q |-> <<>>, r |-> LTrim(SubSeq(n, i, Len(n)))]
    ELSE LBringDown(n[i], d, LDivFrom(n, d, i + 1))

LUnscale(qr, s) == [q |-> LTrim(qr.q), r |-> LShr(qr.r, s)]

\* n and d are scaled by 2^s, which makes the top limb of d at least Base / 2
LDivScaled(n, d, s) == LUnscale(LDivFrom(LShl(n, s), LShl(d, s), 1), s)

\* floor(n / d) and the remainder, for d # 0
LDivMod(n, d) == LDivScaled(n, d, LimbBits - BitLen(<<d[Len(d)]>>))

LIsOdd(a) == a # <<>> /\ a[1] % 2 = 1

\* the kept digits, one more when the digits "low" rounded away are more
\* than "half", or are "half" and the kept digits are odd
RoundKept(kept, low, half, sticky) ==
    IF LLess(half, low) \/ (low = half /\ (sticky \/ LIsOdd(kept)))
    THEN LAdd(kept, <<1>>)
    ELSE kept

\* n with its last "drop" binary digits rounded away, to nearest and ties
\* to even; "sticky" says that digits beyond those of n were not all zero
RoundOff(n, drop, sticky) ==
    IF drop <= 0 THEN n
    ELSE RoundKept(LShr(n, drop), LowBits(n, drop), LShl(<<1>>, drop - 1), sticky)

\* A double is a sign, a mantissa m of exactly 53 binary digits (none for
\* zero) and an exponent e: its value is m * 2^e.  Exponent limits,
\* subnormal numbers and the sign of zero are left out.
FZero == [neg |-> FALSE, m |-> <<>>, e |-> 0]

\* the double m * 2^e for a rounded mantissa m of 53 digits, or of 54
\* digits when the rounding carried: then m is 2^53
Pack(neg, m, e) ==
    IF BitLen(m) = 54 THEN [neg |-> neg, m |-> LShr(m, 1), e |-> e + 1]
    ELSE [neg |-> neg, m |-> m, e |-> e]

\* the double nearest to (qr.q + fraction) * 2^e, where qr.q has 55 or 56
\* digits and the fraction is 0 exactly when qr.r is
RoundQuotient(neg, qr, drop, e) ==
    Pack(neg, RoundOff(qr.q, drop, qr.r # <<>>), e + drop)

Quotient55(neg, qr, e) == RoundQuotient(neg, qr, BitLen(qr.q) - 53, e)

\* floor(n * 2^t / d) and the remainder
ShiftedDiv(n, d, t) ==
    IF d = <<1>>
    THEN (IF t >= 0 THEN [q |-> LShl(n, t), r |-> <<>>]
          ELSE [q |-> LShr(n, -t), r |-> LowBits(n, -t)])
    ELSE IF t >= 0 THEN LDivMod(LShl(n, t), d)
    ELSE LDivMod(n, LShl(d, -t))

ScaledDouble(neg, n, d, k, t) == Quotient55(neg, ShiftedDiv(n, d, t), k - t)

\* the double nearest to n / d * 2^k (round to nearest, ties to even)
ToDouble(neg, n, d, k) ==
    IF n = <<>> THEN FZero
    ELSE ScaledDouble(neg, n, d, k, BitLen(d) + 55 - BitLen(n))

\* float(n) for an integer n
FInt(n) == ToDouble(n < 0, Limbs(IF n < 0 THEN -n ELSE n), <<1>>, 0)

\* the double of the decimal rate r / 100, as the JSON parser reads it
FRate(r) == ToDouble(r < 0, Limbs(IF r < 0 THEN -r ELSE r), Limbs(100), 0)

FNeg(x) == IF x.m = <<>> THEN x ELSE [x EXCEPT !.neg = ~x.neg]

\* a * 2^e with the sign xneg plus b * 2^e with the sign yneg
AddAligned(xneg, a, yneg, b, e) ==
    ToDouble(IF xneg = yneg \/ ~LLess(a, b) THEN xneg ELSE yneg,
             IF xneg = yneg THEN LAdd(a, b)
             ELSE IF LLess(a, b) THEN LSub(b, a) ELSE LSub(a, b),
             <<1>>, e)

AddAt(x, y, e) == AddAligned(x.neg, LShl(x.m, x.e - e), y.neg, LShl(y.m, y.e - e), e)

\* x + y
FAdd(x, y) ==
    IF x.m = <<>> THEN y
    ELSE IF y.m = <<>> THEN x
    ELSE AddAt(x, y, Min(x.e, y.e))

\* x - y
FSub(x, y) == FAdd(x, FNeg(y))

\* x * y
FMul(x, y) ==
    IF x.m = <<>> \/ y.m = <<>> THEN FZero
    ELSE ToDouble(x.neg # y.neg, LMul(x.m, y.m), <<1>>, x.e + y.e)

\* x / y for y # 0
FDiv(x, y) ==
    IF x.m = <<>> THEN FZero
    ELSE ToDouble(x.neg # y.neg, x.m, y.m, x.e - y.e)

SignedInt(neg, a) == IF neg THEN -LimbsToInt(a) ELSE LimbsToInt(a)

\* n * 2^e to the nearest integer, ties to even
ScaleToInt(n, e) == IF e >= 0 THEN LShl(n, e) ELSE RoundOff(n, -e, FALSE)

\* round(x, 4) in ten-thousandths: the integer nearest to the exact value
\* of x * 10^4, ties to even
FRound4(x) == SignedInt(x.neg, ScaleToInt(LMulSmall(x.m, 10000), x.e))

\* sum(all_rates[1..n]): the interpreter adds the doubles from left to
\* right, starting from 0
RECURSIVE FSum(_, _)
FSum(all_rates, n) ==
    IF n = 0 THEN FZero
    ELSE FAdd(FSum(all_rates, n - 1), FRate(all_rates[n]))

\* round(x, 4) in ten-thousandths, for the double x that the code computed
\* for the exact quotient a / b ten-thousandths.  A quotient that is not a
\* tie is at least 1 / (2 |b|) away from the nearest tie, the double is
\* closer to it than that by many orders of magnitude, so both round to
\* the same result; on a tie the double is rounded as the code rounds it.
Round4(a, b, x) == IF IsTie(a, b) THEN FRound4(x) ELSE RoundDiv(a, b)

\* ((current - previous) / previous) * 100 in doubles
pct_change_float(current, previous) ==
    FMul(FDiv(FSub(FRate(current), FRate(previous)), FRate(previous)), FInt(100))

\* sum(all_rates) / len(all_rates) in doubles
mean_float(all_rates) ==
    FDiv(FSum(all_rates, Len(all_rates)), FInt(Len(all_rates)))

\* variant: the quotient is cut off instead of rounded
safe_pct_change_truncated(current, previous) ==
    IF previous = 0 THEN 0
    ELSE LET n == Abs(current - previous) * 1000000
             q == n \div Abs(previous)
         IN  IF (current < previous) # (previous < 0) THEN -q ELSE q

\* safe_pct_change(current, previous), result in ten-thousandths of a percent
safe_pct_change(current, previous) ==
    IF previous = 0 THEN 0
    ELSE Round4((current - previous) * 1000000, previous,
                pct_change_float(current, previous))

\* ---------------------------------------------------------- summariser --
\* the loop of calculate_summary over sorted_dates[1..n]: the DayRate list
RECURSIVE DayRates(_, _, _)
DayRates(rates, sorted_dates, n) ==
    IF n = 0 THEN <<>>
    ELSE LET d == sorted_dates[n]
             rate == Get(rates[d], "USD", 0)
             previous_rate == IF n = 1 THEN None
                              ELSE Some(Get(rates[sorted_dates[n - 1]], "USD", 0))
             pct_change == IF IsNone(previous_rate) THEN None
                           ELSE Some(safe_pct_change(rate, The(previous_rate)))
         IN  Append(DayRates(rates, sorted_dates, n - 1),
                    [date |-> d, rate |-> rate, pct_change |-> pct_change])

\* variant: the mean is cut off instead of rounded
mean_rate_of_truncated(all_rates) ==
    IF all_rates # <<>>
    THEN LET q == (Abs(SumSeq(all_rates)) * 100) \div Len(all_rates)
         IN  IF SumSeq(all_rates) < 0 THEN -q ELSE q
    ELSE 0

\* round(sum(all_rates) / len(all_rates), 4)
mean_rate_of(all_rates) ==
    IF all_rates # <<>>
    THEN Round4(SumSeq(all_rates) * 100, Len(all_rates), mean_float(all_rates))
    ELSE 0

Totals(all_rates) ==
    LET start_rate == IF all_rates # <<>> THEN all_rates[1] ELSE 0
        end_rate == IF all_rates # <<>> THEN all_rates[Len(all_rates)] ELSE 0
    IN  [start_rate |-> start_rate,
         end_rate |-> end_rate,
         total_pct_change |-> safe_pct_change(end_rate, start_rate),
         mean_rate |-> mean_rate_of(all_rates)]

\* variant: the breakdown is returned whatever the mode
Breakdown_always(day_rates, breakdown_type) == Some(day_rates)

\* breakdown=day_rates if breakdown_type == "day" else None
Breakdown(day_rates, breakdown_type) ==
    IF breakdown_type = "day" THEN Some(day_rates) ELSE None

\* variant: the test "rates is None", which no dict satisfies
NoRates_none_only(rates) == FALSE

\* "not rates": the rates object is missing or has no date
NoRates(rates) == DOMAIN rates = {}

\* The lists day_rates and all_rates are built once by the loop; the
\* one-element sets below name their values, as the local variables do.
calculate_summary(rates_data, breakdown_type) ==
    LET rates == Get(rates_data, "rates", EmptyDict)
    IN  IF NoRates(rates) THEN Raise(404, "HTTPException")
        ELSE CHOOSE summary \in
               {Return([breakdown |-> Breakdown(lists.day_rates, breakdown_type),
                        totals |-> Totals(lists.all_rates),
                        source |-> Get(rates_data, "_source", "api")]) :
                  lists \in
                    {[day_rates |-> day_rates,
                      all_rates |-> [i \in 1..Len(day_rates) |-> day_rates[i].rate]] :
                       day_rates \in {DayRates(rates, sorted_dates, Len(sorted_dates)) :
                                        sorted_dates \in {Sorted(DOMAIN rates)}}}} : TRUE

\* ------------------------------------------------------------- inputs ---
\* date keys "1", "10", "2", "9"
Dates == {<<1>>, <<1, 0>>, <<2>>, <<9>>}
\* rates -1.28, 0.00, 1.00, 1.10, 1.25, 1.28, 1.29: the change from 1.28
\* to 1.25 or to 1.29, and from -1.28 to 1.25 or to 1.29, is an exact tie
Rates == {-128, 0, 100, 110, 125, 128, 129}
\* a date entry: an object with or without the USD field
Entries == {EmptyDict} \cup {[USD |-> r] : r \in Rates}
Modes == {"day", "none"}

SeriesOver(D) == [D -> Entries]
AllSeries == UNION {SeriesOver(D) : D \in {X \in SUBSET Dates : Cardinality(X) <= MaxSeriesLen}}

\* ------------------------------------------------------ JSON values ----
\* What response.json() / json.load() can return: an object (a dict), an
\* array (a list), a string, number or boolean (a scalar), or null, which
\* Python reads as None.
JsonObject(obj) == Some([type |-> "object", obj |-> obj])
JsonArray == Some([type |-> "array"])
JsonScalar == Some([type |-> "scalar"])
JsonNull == None

SeriesA == (<<1>> :> [USD |-> 100]) @@ (<<2>> :> [USD |-> 110])
SeriesB == (<<2>> :> [USD |-> 125]) @@ (<<1, 0>> :> [USD |-> 0]) @@ (<<9>> :> EmptyDict)
SeriesF == (<<9>> :> [USD |-> 110]) @@ (<<1, 0>> :> [USD |-> 125])
\* eight dates "1" .. "8": the mean of eight rates with an odd sum of
\* hundredths is an exact tie
SeriesT == [d \in {<<i>> : i \in 1..8} |-> [USD |-> IF d = <<1>> THEN 129 ELSE 128]]
SeriesU == [d \in {<<i>> : i \in 1..8} |-> [USD |-> IF d = <<8>> THEN 3 ELSE 0]]

\* bodies the remote provider may answer with
ProviderObjects ==
    {EmptyDict, [rates |-> EmptyDict], [rates |-> SeriesA], [rates |-> SeriesB]}
\* open(FALLBACK_FILE, "r") fails with an OSError: the file is not there,
\* the path is a directory, the process may not read it, "data" is not a
\* directory, or another errno (a symbolic link loop, a name too long)
OpenErrors ==
    {"FileNotFoundError", "IsADirectoryError", "PermissionError",
     "NotADirectoryError", "OSError"}

\* f.read() inside json.load fails: the bytes do not decode in the text
\* encoding of open(path, "r") (UTF-8 here: JSON saved as UTF-16, a Latin-1
\* byte), or the read itself fails with an I/O error
ReadErrors == {"UnicodeDecodeError", "OSError"}

\* the JSON parser fails on the decoded text: it is not JSON (an empty
\* file, a leading byte order mark), it nests deeper than the recursion
\* limit, or it holds an integer of more than 4300 digits
ParseErrors == {"JSONDecodeError", "RecursionError", "ValueError"}

\* the snapshot file data/sample_fx.json, by how far load_fallback() gets
\* with it
OpenFails(e) == [kind |-> "open_fails", error |-> e]
ReadFails(e) == [kind |-> "read_fails", error |-> e]
ParseFails(e) == [kind |-> "parse_fails", error |-> e]
JsonFile(json) == [kind |-> "json", json |-> json]
MissingFile == OpenFails("FileNotFoundError")
SnapshotFiles ==
    {OpenFails(e) : e \in OpenErrors} \cup {ReadFails(e) : e \in ReadErrors}
       \cup {ParseFails(e) : e \in ParseErrors}
       \cup {JsonFile(JsonNull), JsonFile(JsonArray), JsonFile(JsonScalar),
             JsonFile(JsonObject(EmptyDict)),
             JsonFile(JsonObject([rates |-> EmptyDict])),
             JsonFile(JsonObject([rates |-> SeriesF]))}

\* what response.json() raises for a success status whose body does not
\* parse: text that is not JSON, bytes that do not decode, JSON nested
\* beyond the recursion limit, an integer of more than 4300 digits
BodyErrors ==
    {"JSONDecodeError", "UnicodeDecodeError", "RecursionError", "ValueError"}

\* outcomes of one client.get(url, timeout=10.0) followed by
\* raise_for_status() and json()
NetworkError == [kind |-> "network_error"]
Timeout == [kind |-> "timeout"]
BadStatus == [kind |-> "bad_status"]
Unparseable(e) == [kind |-> "unparseable", error |-> e]
Parsed(json) == [kind |-> "ok", json |-> json]
RemoteOutcomes(objects) ==
    {NetworkError, Timeout, BadStatus}
       \cup {Unparseable(e) : e \in BodyErrors}
       \cup {Parsed(JsonNull), Parsed(JsonArray), Parsed(JsonScalar)}
       \cup {Parsed(JsonObject(o)) : o \in objects}

\* httpx.RequestError (TimeoutException is one) and httpx.HTTPStatusError
Caught(o) == o.kind \in {"network_error", "timeout", "bad_status"}

\* ------------------------------------------------------------ fetcher ---
RECURSIVE Pow2(_)
Pow2(n) == IF n = 0 THEN 1 ELSE 2 * Pow2(n - 1)

\* wait_time = 2 ** attempt
wait_time(attempt) == Pow2(attempt)

\* "if attempt < MAX_RETRIES - 1": sleep and retry, otherwise give up
RetryAfter(attempt) == attempt < MAX_RETRIES - 1

\* ------------------------------------------------------------ handler ---
\* variant: a one-day range is rejected too
InvalidRange_inclusive(s, e) == s >= e

\* start > end is rejected
InvalidRange(s, e) == s > e

\* data["_source"] = tag
WithSource(d, tag) ==
    [k \in DOMAIN d \cup {"_source"} |-> IF k = "_source" THEN tag ELSE d[k]]

\* the provenance tags of the two branches of get_summary
FallbackTag_untagged == "api"
FallbackTag == "fallback"
ApiTag == "api"

\* open(FALLBACK_FILE, "r"): the OSError it raises, None when it opens
open_error(file) ==
    IF file.kind = "open_fails" THEN Some(file.error) ELSE None

\* json.load(f): f.read() raises for bytes that cannot be read as text, the
\* parser raises for text it cannot parse, otherwise the parsed value is
\* returned
json_load(file) ==
    IF file.kind \in {"read_fails", "parse_fails"} THEN Raise(500, file.error)
    ELSE Return(file.json)

\* load_fallback(): nothing is caught, every error leaves the function
load_fallback(file) ==
    IF ~IsNone(open_error(file)) THEN Raise(500, The(open_error(file)))
    ELSE json_load(file)

\* data["_source"] = tag followed by calculate_summary(data, breakdown):
\* the item assignment raises TypeError on a value that is not a dict
TagAndSummarise(json, tag, breakdown_type) ==
    IF IsNone(json) \/ The(json).type # "object" THEN Raise(500, "TypeError")
    ELSE calculate_summary(WithSource(The(json).obj, tag), breakdown_type)

\* lines 165-172 of get_summary, given the value fetch_with_retry returned
Respond(fetched, file, breakdown_type) ==
    IF IsNone(fetched)
    THEN LET loaded == load_fallback(file)
         IN  IF ~loaded.ok THEN loaded
             ELSE TagAndSummarise(The(loaded.value), FallbackTag, breakdown_type)
    ELSE TagAndSummarise(fetched, ApiTag, breakdown_type)

VARIABLES
    reqs,           \* the requests being served
    start, end,     \* query parameters of each request (day numbers)
    breakdown,      \* query parameter "day" | "none"
    pc,             \* where each request's coroutine stands
    attempt,        \* loop variable of fetch_with_retry
    calls,          \* number of client.get calls made so far
    caught,         \* number of calls that ended in the except branch
    waits,          \* the asyncio.sleep durations requested so far
    outcomes,       \* what each call made so far was answered with
    data,           \* value returned by fetch_with_retry
    raised,         \* exception that left fetch_with_retry, in flight
    fallback_read,  \* load_fallback was called
    response,       \* the response once the request is done
    provider,       \* the outcomes the remote provider can answer with
    fallback_file   \* state of the snapshot file (read-only)

pvars == <<reqs, start, end, breakdown, pc, attempt, calls, caught, waits,
           outcomes, data, raised, fallback_read, response, provider,
           fallback_file>>

VARIABLES
    sData, sMode,   \* arguments of a call of calculate_summary
    sResult,        \* what the call returned or raised
    sOther          \* the same for a second call, on sData in the other mode

svars == <<sData, sMode, sResult, sOther>>

vars == <<pvars, svars>>

\* --------------------------------------------------- request handling ---
\* variant: a blocking sleep (time.sleep) holds the event loop, so nothing
\* else runs while a request sleeps
Runnable_blocking_sleep(r) ==
    r \in reqs /\ pc[r] # "done" /\ \A q \in reqs \ {r} : pc[q] # "sleep"

\* the event loop can resume request r: awaiting asyncio.sleep suspends
\* only the coroutine that sleeps
Runnable(r) == r \in reqs /\ pc[r] # "done"

Finish(r, resp) ==
    /\ response' = [response EXCEPT ![r] = Some(resp)]
    /\ pc' = [pc EXCEPT ![r] = "done"]

\* get_summary up to the first await: the range check, then "async with
\* httpx.AsyncClient() as client" awaits the client's __aenter__
Validate(r) ==
    /\ Runnable(r) /\ pc[r] = "validate"
    /\ IF InvalidRange(start[r], end[r])
       THEN Finish(r, Raise(400, "HTTPException"))
       ELSE /\ pc' = [pc EXCEPT ![r] = "aenter"]
            /\ UNCHANGED response
    /\ UNCHANGED <<reqs, start, end, breakdown, attempt, calls, caught, waits,
                   outcomes, data, raised, fallback_read, provider,
                   fallback_file>>
    /\ UNCHANGED svars

\* __aenter__ returns: the client is open, fetch_with_retry is entered and
\* its loop starts
ClientEnter(r) ==
    /\ Runnable(r) /\ pc[r] = "aenter"
    /\ pc' = [pc EXCEPT ![r] = "get"]
    /\ UNCHANGED <<reqs, start, end, breakdown, attempt, calls, caught, waits,
                   outcomes, data, raised, fallback_read, response, provider,
                   fallback_file>>
    /\ UNCHANGED svars

\* the loop of fetch_with_retry reaches "await client.get(url, ...)": the
\* call is made and the coroutine is suspended until the answer is there
ClientGet(r) ==
    /\ Runnable(r) /\ pc[r] = "get"
    /\ calls' = [calls EXCEPT ![r] = @ + 1]
    /\ pc' = [pc EXCEPT ![r] = "await_get"]
    /\ UNCHANGED <<reqs, start, end, breakdown, attempt, caught, waits,
                   outcomes, data, raised, fallback_read, response, provider,
                   fallback_file>>
    /\ UNCHANGED svars

\* the call is answered: the rest of the iteration, that is the status
\* check, the parse, and the except branch up to its await or return.  A
\* return, and an exception that the except clause does not catch, leave
\* the "async with" block, which awaits the client's __aexit__.
AfterGet(r) ==
    /\ Runnable(r) /\ pc[r] = "await_get"
    /\ \E o \in provider :
         /\ outcomes' = [outcomes EXCEPT ![r] = Append(@, o)]
         /\ IF Caught(o)
            THEN /\ caught' = [caught EXCEPT ![r] = @ + 1]
                 /\ IF RetryAfter(attempt[r])
                    THEN /\ waits' = [waits EXCEPT ![r] = Append(@, wait_time(attempt[r]))]
                         /\ pc' = [pc EXCEPT ![r] = "sleep"]
                         /\ UNCHANGED data
                    ELSE /\ data' = [data EXCEPT ![r] = None]
                         /\ pc' = [pc EXCEPT ![r] = "aexit"]
                         /\ UNCHANGED waits
                 /\ UNCHANGED raised
            ELSE IF o.kind = "unparseable"
            THEN /\ raised' = [raised EXCEPT ![r] = Some(o.error)]
                 /\ pc' = [pc EXCEPT ![r] = "aexit"]
                 /\ UNCHANGED <<caught, waits, data>>
            ELSE /\ data' = [data EXCEPT ![r] = o.json]
                 /\ pc' = [pc EXCEPT ![r] = "aexit"]
                 /\ UNCHANGED <<caught, waits, raised>>
    /\ UNCHANGED <<reqs, start, end, breakdown, attempt, calls, fallback_read,
                   response, provider, fallback_file>>
    /\ UNCHANGED svars

\* asyncio.sleep returns: next iteration of the loop, or the loop is over
\* and fetch_with_retry returns None
Wake(r) ==
    /\ Runnable(r) /\ pc[r] = "sleep"
    /\ attempt' = [attempt EXCEPT ![r] = @ + 1]
    /\ IF attempt[r] + 1 < MAX_RETRIES
       THEN pc' = [pc EXCEPT ![r] = "get"] /\ UNCHANGED data
       ELSE pc' = [pc EXCEPT ![r] = "aexit"] /\ data' = [data EXCEPT ![r] = None]
    /\ UNCHANGED <<reqs, start, end, breakdown, calls, caught, waits, outcomes,
                   raised, fallback_read, response, provider, fallback_file>>
    /\ UNCHANGED svars

\* __aexit__ returns: an exception in flight goes on to the caller of
\* get_summary; otherwise lines 165-172 run: fallback, tag, summary
ClientExit(r) ==
    /\ Runnable(r) /\ pc[r] = "aexit"
    /\ IF ~IsNone(raised[r])
       THEN /\ Finish(r, Raise(500, The(raised[r])))
            /\ UNCHANGED fallback_read
       ELSE /\ fallback_read' = [fallback_read EXCEPT ![r] = IsNone(data[r])]
            /\ Finish(r, Respond(data[r], fallback_file, breakdown[r]))
    /\ UNCHANGED <<reqs, start, end, breakdown, attempt, calls, caught, waits,
                   outcomes, data, raised, provider, fallback_file>>
    /\ UNCHANGED svars

Step(r) ==
    \/ Validate(r) \/ ClientEnter(r) \/ ClientGet(r) \/ AfterGet(r)
    \/ Wake(r) \/ ClientExit(r)

InitRequests(R) ==
    /\ reqs = R
    /\ breakdown \in [R -> Modes]
    /\ pc = [r \in R |-> "validate"]
    /\ attempt = [r \in R |-> 0]
    /\ calls = [r \in R |-> 0]
    /\ caught = [r \in R |-> 0]
    /\ waits = [r \in R |-> <<>>]
    /\ outcomes = [r \in R |-> <<>>]
    /\ data = [r \in R |-> None]
    /\ raised = [r \in R |-> None]
    /\ fallback_read = [r \in R |-> FALSE]
    /\ response = [r \in R |-> None]

IdleSummary == sData = EmptyDict /\ sMode = "day" /\ sResult = None /\ sOther = None

\* one request at a time
Init ==
    /\ InitRequests({1})
    /\ start \in [{1} -> 1..MaxDay]
    /\ end \in [{1} -> 1..MaxDay]
    /\ provider = RemoteOutcomes(ProviderObjects)
    /\ fallback_file \in SnapshotFiles
    /\ IdleSummary

Next ==
    \/ \E r \in reqs : Validate(r)
    \/ \E r \in reqs : ClientEnter(r)
    \/ \E r \in reqs : ClientGet(r)
    \/ \E r \in reqs : AfterGet(r)
    \/ \E r \in reqs : Wake(r)
    \/ \E r \in reqs : ClientExit(r)

Spec == Init /\ [][Next]_vars

\* what the provider does while several requests are in flight: a network
\* failure, a body that does not parse, the body null, or a rate series
ConcOutcomes ==
    {NetworkError, Unparseable("JSONDecodeError"), Parsed(JsonNull),
     Parsed(JsonObject([rates |-> SeriesA]))}

\* several requests in flight on the same service instance
InitConc ==
    /\ InitRequests(1..NumReqs)
    /\ start \in [1..NumReqs -> 1..MaxDay]
    /\ end = [r \in 1..NumReqs |-> 1]
    /\ provider = ConcOutcomes
    /\ fallback_file = JsonFile(JsonObject([rates |-> SeriesF]))
    /\ IdleSummary

SpecConc == InitConc /\ [][Next]_vars

\* ------------------------------------------- the summariser on its own ---
\* rates_data objects handed to the summariser: rates missing or a series,
\* with or without a provenance tag
SummaryInputs ==
    {EmptyDict} \cup {[rates |-> s] : s \in AllSeries \cup {SeriesT, SeriesU}}
       \cup {[rates |-> s, _source |-> "fallback"] : s \in AllSeries}

InitSummary ==
    /\ InitRequests({})
    /\ start = <<>> /\ end = <<>>
    /\ provider = {} /\ fallback_file = MissingFile
    /\ sData \in SummaryInputs
    /\ sMode \in Modes
    /\ sResult = None
    /\ sOther = None

Summarize ==
    /\ IsNone(sResult)
    /\ sResult' = Some(calculate_summary(sData, sMode))
    /\ UNCHANGED <<sData, sMode, sOther>>
    /\ UNCHANGED pvars

OtherMode == IF sMode = "day" THEN "none" ELSE "day"

\* the same rates_data summarised once more, in the other breakdown mode
SummarizeAgain ==
    /\ ~IsNone(sResult) /\ IsNone(sOther)
    /\ sOther' = Some(calculate_summary(sData, OtherMode))
    /\ UNCHANGED <<sData, sMode, sResult>>
    /\ UNCHANGED pvars

NextSummary == Summarize \/ SummarizeAgain

SpecSummary == InitSummary /\ [][NextSummary]_vars

\* ================================================== properties ==========
Reply(r) == The(response[r])

\* the rate the code reads from a date entry
RateAt(series, d) == IF "USD" \in DOMAIN series[d] THEN series[d].USD ELSE 0

FirstDate(series) ==
    CHOOSE d \in DOMAIN series : \A e \in DOMAIN series : e = d \/ StrLess(d, e)
LastDate(series) ==
    CHOOSE d \in DOMAIN series : \A e \in DOMAIN series : e = d \/ StrLess(e, d)

\* the summary "result" shows the rates of "series"
ShowsSeries(result, series, mode) ==
    /\ result.totals.start_rate = RateAt(series, FirstDate(series))
    /\ result.totals.end_rate = RateAt(series, LastDate(series))
    /\ mode = "day" =>
         /\ ~IsNone(result.breakdown)
         /\ {<<x.date, x.rate>> : x \in {The(result.breakdown)[i] :
                                          i \in 1..Len(The(result.breakdown))}}
              = {<<d, RateAt(series, d)>> : d \in DOMAIN series}

RatesOf(obj) == IF "rates" \in DOMAIN obj THEN obj.rates ELSE <<>>

\* the response to a request resolved from the object obj with provenance tag
AnswersFrom(r, obj, tag) ==
    IF DOMAIN RatesOf(obj) = {}
    THEN Reply(r) = Raise(404, "HTTPException")
    ELSE /\ Reply(r).ok
         /\ The(Reply(r).value).source = tag
         /\ ShowsSeries(The(Reply(r).value), RatesOf(obj), breakdown[r])

\* the snapshot file holds a JSON object
SnapshotIsObject ==
    /\ fallback_file.kind = "json"
    /\ ~IsNone(fallback_file.json)
    /\ The(fallback_file.json).type = "object"

\* the error class of a snapshot that does not give a JSON object: the one
\* that open, read or the parser raised for this file, or the TypeError of
\* the item assignment of line 168 on a value that is not a dict
SnapshotError ==
    IF fallback_file.kind = "json" THEN "TypeError" ELSE fallback_file.error

\* the response to a request that is answered from the snapshot
FallbackAnswer(r) ==
    IF SnapshotIsObject
    THEN AnswersFrom(r, The(fallback_file.json).obj, "fallback")
    ELSE /\ ~Reply(r).ok
         /\ Reply(r).status = 500
         /\ Reply(r).error = SnapshotError

\* C1 as stated: a finished valid-range request whose 3 attempts all failed
\* has loaded the snapshot and its result is the summary of the snapshot's
\* rates with source "fallback".
C1_AlwaysFallbackSummary ==
    \A r \in reqs :
        (start[r] <= end[r] /\ caught[r] = 3 /\ pc[r] = "done") =>
            /\ fallback_read[r]
            /\ Reply(r).ok
            /\ The(Reply(r).value).source = "fallback"
            /\ ShowsSeries(The(Reply(r).value),
                           RatesOf(The(fallback_file.json).obj), breakdown[r])

\* C1 (amended): a valid-range request whose 3 attempts all failed (network
\* failure, timeout or non-success status) made exactly 3 calls and got
\* "unavailable" from the fetcher with no exception in flight; once it is
\* finished it has read the snapshot, and it ends in no error of the
\* remote: when the snapshot holds a JSON object with rates the result is
\* the summary of the snapshot's rates with source "fallback", when the
\* object has no rates it is the 404 error, and when the snapshot cannot be
\* opened, read or parsed, or is not an object, it is a 500 with that
\* error of the snapshot.
C1_FallbackAfterExhaustion ==
    \A r \in reqs :
        (start[r] <= end[r] /\ caught[r] = 3) =>
            /\ calls[r] = 3
            /\ pc[r] \in {"aexit", "done"}
            /\ IsNone(data[r]) /\ IsNone(raised[r])
            /\ \A i \in 1..3 : Caught(outcomes[r][i])
            /\ pc[r] = "done" => fallback_read[r] /\ FallbackAnswer(r)

C1_Witness ==
    \E r \in reqs :
        /\ pc[r] = "done" /\ caught[r] = 3 /\ fallback_read[r]
        /\ Reply(r).ok
        /\ The(Reply(r).value).source = "fallback"
        /\ The(Reply(r).value).totals.start_rate = 125

\* an attempt succeeded: fetch_with_retry returned the parsed JSON object
Succeeded(r) == ~IsNone(data[r]) /\ The(data[r]).type = "object"

\* the attempts (1-based) of request r that were answered with a success
\* status and a body that parses
SuccessfulAttempts(r) ==
    {i \in 1..Len(outcomes[r]) : outcomes[r][i].kind = "ok"}

\* C2 as stated: when the first successful attempt of a valid-range request
\* is attempt k (0-based), exactly k attempts failed before it and none is
\* made after it, exactly k backoff delays were observed (one delay of 1
\* second when k = 1), and the finished request has a result with source
\* "api" that is computed from that attempt's response (a response without
\* rates being the 404 error of claim C5).
C2_ApiAfterSuccess ==
    \A r \in reqs : \A i \in SuccessfulAttempts(r) :
        (start[r] <= end[r] /\ \A j \in SuccessfulAttempts(r) : i <= j) =>
            LET k == i - 1
                body == outcomes[r][i].json
            IN  /\ caught[r] = k
                /\ calls[r] = k + 1
                /\ Len(waits[r]) = k
                /\ k = 1 => waits[r] = <<1>>
                /\ pc[r] \in {"aexit", "done"}
                /\ pc[r] = "done" =>
                     IF ~IsNone(body) /\ The(body).type = "object"
                     THEN AnswersFrom(r, The(body).obj, "api")
                     ELSE /\ Reply(r).ok
                          /\ The(Reply(r).value).source = "api"

C4_InvalidRangeFirst ==
    \A r \in reqs :
        /\ start[r] > end[r] =>
             /\ calls[r] = 0 /\ waits[r] = <<>> /\ ~fallback_read[r]
             /\ pc[r] \in {"validate", "done"}
             /\ pc[r] = "done" => Reply(r) = Raise(400, "HTTPException")
        /\ start[r] <= end[r] =>
             /\ pc[r] = "done" => Reply(r).status # 400
             /\ pc[r] # "validate" => calls[r] > 0 \/ pc[r] \in {"aenter", "get"}

C4_Witness ==
    \E r \in reqs :
        /\ start[r] > end[r] /\ pc[r] = "done"
        /\ Reply(r).status = 400 /\ calls[r] = 0

\* the series a finished request was resolved to, as a set of at most one
\* rates object: from the remote response, or from the snapshot
Resolved(r) ==
    IF Succeeded(r) THEN {RatesOf(The(data[r]).obj)}
    ELSE IF fallback_read[r] /\ SnapshotIsObject
         THEN {RatesOf(The(fallback_file.json).obj)}
         ELSE {}

\* C5: a finished request whose resolved series is empty ends in the 404
\* error with no summary, in both modes and from both sources; when the
\* empty or missing rates came from a successful attempt the snapshot is
\* not read.
C5_NoDataOnEmptySeries ==
    \A r \in reqs :
        (pc[r] = "done" /\ Resolved(r) = {<<>>}) =>
            /\ Reply(r) = Raise(404, "HTTPException")
            /\ IsNone(Reply(r).value)
            /\ Succeeded(r) => ~fallback_read[r]

C5_Witness ==
    \E r \in reqs :
        /\ pc[r] = "done" /\ Succeeded(r)
        /\ The(data[r]).obj = [rates |-> <<>>]
        /\ Reply(r).status = 404 /\ ~fallback_read[r]

\* fetch_with_retry returned to get_summary: a parsed body, or the
\* "unavailable" signal None, upon which the snapshot is read
FetchReturned(r) == ~IsNone(data[r]) \/ fallback_read[r]

\* C9 as stated: whatever the remote does, fetch_with_retry returns a parsed
\* body or "unavailable" and raises nothing, so that every finished
\* valid-range request got a value from the fetcher.
C9_FetchNeverRaises ==
    \A r \in reqs :
        (start[r] <= end[r] /\ pc[r] = "done") => FetchReturned(r)

\* a step of request r changed some of its state
Moved(r) ==
    <<pc[r], attempt[r], calls[r], caught[r], waits[r], outcomes[r], data[r],
      raised[r], fallback_read[r], response[r]>>' #
    <<pc[r], attempt[r], calls[r], caught[r], waits[r], outcomes[r], data[r],
      raised[r], fallback_read[r], response[r]>>

Untouched(q) ==
    <<start[q], end[q], breakdown[q], pc[q], attempt[q], calls[q], caught[q],
      waits[q], outcomes[q], data[q], raised[q], fallback_read[q],
      response[q]>>' =
    <<start[q], end[q], breakdown[q], pc[q], attempt[q], calls[q], caught[q],
      waits[q], outcomes[q], data[q], raised[q], fallback_read[q],
      response[q]>>

\* no request suspended in a backoff wait, in a call to the provider, or in
\* opening or closing its client, disables the next step of another request
NeverBlocked ==
    \A r \in reqs : \A q \in reqs \ {r} :
        (pc[q] \in {"sleep", "await_get", "aenter", "aexit"} /\ pc[r] # "done")
            => ENABLED Step(r)

\* the response that a finished request owes to its own start, end and
\* breakdown mode and to the outcomes of its own attempts: every attempt
\* but the last failed; the last one decides
OwnAnswer(r) ==
    IF start[r] > end[r]
    THEN outcomes[r] = <<>> /\ Reply(r) = Raise(400, "HTTPException")
    ELSE LET n == Len(outcomes[r])
             last == outcomes[r][n]
         IN  /\ n \in 1..3 /\ n = calls[r]
             /\ \A i \in 1..(n - 1) : Caught(outcomes[r][i])
             /\ Len(waits[r]) = (IF Caught(last) THEN 2 ELSE n - 1)
             /\ IF last.kind = "unparseable"
                THEN Reply(r) = Raise(500, last.error)
                ELSE IF last.kind = "ok" /\ ~IsNone(last.json)
                THEN IF The(last.json).type = "object"
                     THEN AnswersFrom(r, The(last.json).obj, "api")
                     ELSE Reply(r) = Raise(500, "TypeError")
                ELSE /\ Caught(last) => n = 3
                     /\ FallbackAnswer(r)

\* finished requests answer as their own inputs say, and two of them with
\* the same parameters and the same attempt outcomes have the same response
OwnInputsDecide ==
    /\ \A r \in reqs : pc[r] = "done" => OwnAnswer(r)
    /\ \A r \in reqs : \A q \in reqs :
         ( /\ pc[r] = "done" /\ pc[q] = "done"
           /\ <<start[r], end[r], breakdown[r], outcomes[r]>>
              = <<start[q], end[q], breakdown[q], outcomes[q]>> )
         => Reply(r) = Reply(q)

\* every step is a step of one request and leaves the others, the snapshot
\* and the set of requests as they were
OneRequestPerStep ==
    \A r \in reqs :
        Moved(r) => /\ \A q \in reqs \ {r} : Untouched(q)
                    /\ start'[r] = start[r] /\ end'[r] = end[r]
                    /\ breakdown'[r] = breakdown[r]
                    /\ fallback_file' = fallback_file
                    /\ reqs' = reqs

\* C10: with several requests in flight, a request in a backoff wait (or
\* suspended in any other await) never disables the steps of another
\* request, every step changes the state of one request only, and however
\* the steps interleave a request's response is the one its own start, end
\* and breakdown mode and the outcomes of its own attempts decide.
C10_IndependentRequests ==
    /\ [](NeverBlocked /\ OwnInputsDecide)
    /\ [][OneRequestPerStep]_vars

C10_Witness ==
    \E r \in reqs : \E q \in reqs \ {r} :
        /\ pc[q] = "sleep" /\ waits[q] = <<1, 2>>
        /\ pc[r] = "done" /\ calls[r] = 3 /\ waits[r] = <<1, 2>>
        /\ Reply(r).ok

\* ------------------------------------------- properties of the summary ---
\* the summariser returned a summary of the non-empty series sData.rates
Summarised ==
    /\ ~IsNone(sResult)
    /\ "rates" \in DOMAIN sData
    /\ DOMAIN sData.rates # {}

Summary == The(The(sResult).value)

\* x is (current - previous) / previous * 100 to 4 decimals, or 0.0 when
\* previous is 0
IsPctChange(x, current, previous) ==
    IF previous = 0 THEN x = 0
    ELSE 2 * Abs(x * previous - (current - previous) * 1000000) <= Abs(previous)

RECURSIVE SumRates(_, _)
SumRates(series, D) ==
    IF D = {} THEN 0
    ELSE LET d == CHOOSE x \in D : TRUE
         IN  RateAt(series, d) + SumRates(series, D \ {d})

\* m is the arithmetic mean of the rates of the series to 4 decimals
IsMean(m, series) ==
    LET n == Cardinality(DOMAIN series)
    IN  2 * Abs(m * n - SumRates(series, DOMAIN series) * 100) <= n

\* C6: for a non-empty series the summariser returns a summary; in mode
\* "day" its breakdown has exactly one entry per date of the series, in
\* strictly ascending date order; in mode "none" it has no breakdown.
C6_BreakdownShape ==
    Summarised =>
        /\ The(sResult).ok
        /\ sMode = "day" =>
             /\ ~IsNone(Summary.breakdown)
             /\ LET b == The(Summary.breakdown)
                IN  /\ Len(b) = Cardinality(DOMAIN sData.rates)
                    /\ {b[i].date : i \in 1..Len(b)} = DOMAIN sData.rates
                    /\ \A i \in 1..Len(b) : \A j \in 1..Len(b) :
                           i < j => StrLess(b[i].date, b[j].date)
        /\ sMode = "none" => IsNone(Summary.breakdown)

C6_Witness ==
    /\ Summarised /\ The(sResult).ok /\ sMode = "day"
    /\ ~IsNone(Summary.breakdown)
    /\ Len(The(Summary.breakdown)) = 3
    /\ [i \in 1..3 |-> The(Summary.breakdown)[i].date] = << <<1>>, <<1, 0>>, <<2>> >>

\* C7: in every breakdown the first entry has no pct_change; every later
\* entry carries the rate of its date (0.0 when the date has no USD field)
\* and the zero-guarded percentage change from the rate of the date just
\* before it in sorted order, which is exactly 0.0 when that rate is 0 and
\* a nearest value with 4 decimals otherwise (0.7813 from 1.28 to 1.29,
\* where the exact change 0.78125 is a tie).
C7_DayOverDayChange ==
    (Summarised /\ The(sResult).ok /\ ~IsNone(Summary.breakdown)) =>
        LET b == The(Summary.breakdown)
            S == sData.rates
        IN  /\ Len(b) >= 1
            /\ IsNone(b[1].pct_change)
            /\ \A i \in 1..Len(b) : b[i].rate = RateAt(S, b[i].date)
            /\ \A i \in 2..Len(b) :
                 /\ StrLess(b[i - 1].date, b[i].date)
                 /\ ~\E d \in DOMAIN S :
                        StrLess(b[i - 1].date, d) /\ StrLess(d, b[i].date)
                 /\ ~IsNone(b[i].pct_change)
                 /\ IsPctChange(The(b[i].pct_change),
                                RateAt(S, b[i].date), RateAt(S, b[i - 1].date))
                 /\ (RateAt(S, b[i].date) = 129 /\ RateAt(S, b[i - 1].date) = 128)
                      => The(b[i].pct_change) = 7813

C7_Witness ==
    /\ Summarised /\ The(sResult).ok /\ ~IsNone(Summary.breakdown)
    /\ LET b == The(Summary.breakdown)
       IN  /\ Len(b) = 3
           /\ "USD" \notin DOMAIN sData.rates[b[1].date]
           /\ b[2].rate = 110 /\ b[2].pct_change = Some(0)
           /\ b[3].rate = 125 /\ b[3].pct_change = Some(136364)

\* C8: for a non-empty series the totals are: start_rate the rate of the
\* smallest date, end_rate the rate of the largest date, total_pct_change
\* the zero-guarded change from start_rate to end_rate, mean_rate the mean
\* of all rates to 4 decimals; a second call in the other mode returns the
\* same totals, and rates
\* 1.0 and 1.1 give mean 1.05 and total_pct_change 10.0 (seven rates 0.0
\* and one 0.03, whose exact mean 0.00375 is a tie, give 0.0037).
C8_Totals ==
    (Summarised /\ The(sResult).ok) =>
        LET t == Summary.totals
            S == sData.rates
        IN  /\ t.start_rate = RateAt(S, FirstDate(S))
            /\ t.end_rate = RateAt(S, LastDate(S))
            /\ IsPctChange(t.total_pct_change, t.end_rate, t.start_rate)
            /\ IsMean(t.mean_rate, S)
            /\ ~IsNone(sOther) =>
                 The(sOther).ok /\ The(The(sOther).value).totals = t
            /\ S = SeriesA => t.mean_rate = 10500 /\ t.total_pct_change = 100000
            /\ S = SeriesU => t.mean_rate = 37
            /\ S = SeriesT => t.mean_rate = 12812

C8_Witness ==
    /\ Summarised /\ The(sResult).ok /\ sMode = "none" /\ ~IsNone(sOther)
    /\ sData.rates = SeriesA
    /\ Summary.totals = [start_rate |-> 100, end_rate |-> 110,
                         total_pct_change |-> 100000, mean_rate |-> 10500]

====
